---- MODULE Spec2Model ----
(***************************************************************************)
(* Link shortener: the links table (db/schema.ts), the data helpers        *)
(* (data/links.ts), the server actions createLink / editLink /             *)
(* deleteLinkAction (app/dashboard/actions), the seed script (db/seed.ts)  *)
(* and the redirect route handler GET /l/[shortcode].                      *)
(*                                                                         *)
(* Strings that the code inspects (urls, short codes) are sequences of     *)
(* one-character strings; messages are sequences of words, so that         *)
(* String.prototype.includes("unique") is a search, not a table.           *)
(***************************************************************************)
EXTENDS Integers, Sequences, FiniteSets, TLC

\* ------------------------------------------------------------------ bounds
NumRacers == 2     \* concurrent calls of SpecRace and SpecConc
MaxId == 2         \* Spec and SpecClock follow the identity sequence up to this value
MaxTime == 1       \* SpecClock follows both clocks up to this value
SeedRows == 1      \* leading rows of seedData the seed script inserts
MaxCodeLen == 21   \* SpecParse submits short codes of every length up to this one

\* --------------------------------------------------------------- characters
Lower == {"a","b","c","d","e","f","g","h","i","j","k","l","m",
          "n","o","p","q","r","s","t","u","v","w","x","y","z"}
Upper == {"A","B","C","D","E","F","G","H","I","J","K","L","M",
          "N","O","P","Q","R","S","T","U","V","W","X","Y","Z"}
Digit == {"0","1","2","3","4","5","6","7","8","9"}

\* --------------------------------------------------------------- identities
SEED_USER_ID == "user_37eJO4MXCcqwUtDj0UFOGKuARUV"
OTHER_USER_ID == "user_other"
\* auth() yields { userId: null } for a signed-out request; "" is its falsy stand-in
NoUser == ""
UserIds == {SEED_USER_ID, OTHER_USER_ID}
Callers == UserIds \cup {NoUser}

\* ------------------------------------------------------------------ inputs
UrlA == <<"h","t","t","p","s",":","/","/","a",".","c","o","m">>
UrlB == <<"h","t","t","p","s",":","/","/","b",".","c","o","m">>
UrlBad == <<"a",".","c","o","m">>
CodeAbc == <<"a","b","c">>
CodeTwenty == <<"a","b","c","d","e","f","g","h","i","j","0","1","2","3","4","5","6","7","8","9">>
CodeTwo == <<"a","b">>

seedData == <<
  [userId |-> SEED_USER_ID, shortCode |-> <<"g","h","-","r","e","p","o">>,
   url |-> <<"h","t","t","p","s",":","/","/","g","i","t","h","u","b",".","c","o","m","/","v","e","r","c","e","l","/","n","e","x","t",".","j","s">>],
  [userId |-> SEED_USER_ID, shortCode |-> <<"y","t","-","v","i","d">>,
   url |-> <<"h","t","t","p","s",":","/","/","w","w","w",".","y","o","u","t","u","b","e",".","c","o","m","/","w","a","t","c","h","?","v","=","d","Q","w","4","w","9","W","g","X","c","Q">>],
  [userId |-> SEED_USER_ID, shortCode |-> <<"x","-","p","o","s","t">>,
   url |-> <<"h","t","t","p","s",":","/","/","x",".","c","o","m","/","v","e","r","c","e","l","/","s","t","a","t","u","s","/","1","2","3","4","5","6","7","8","9","0">>],
  [userId |-> SEED_USER_ID, shortCode |-> <<"m","e","d","i","u","m","-","a","i">>,
   url |-> <<"h","t","t","p","s",":","/","/","m","e","d","i","u","m",".","c","o","m","/","@","e","x","a","m","p","l","e","/","u","n","d","e","r","s","t","a","n","d","i","n","g","-","a","i","-","t","r","a","n","s","f","o","r","m","e","r","s","-","2","0","2","4">>]
>>

SeedBatch == SubSeq(seedData, 1, SeedRows)

InputIds == 1..MaxId

\* an id that is no number (a string, undefined); -1 is its stand-in, no
\* identity column hands it out
NotANumber == -1

\* ---------------------------------------------------------------- messages
MsgUnauthorized == <<"Unauthorized">>
MsgInvalidUrl == <<"Invalid","URL","format">>
MsgTooShort == <<"Short","code","must","be","at","least","3","characters">>
MsgTooLong == <<"Short","code","must","be","at","most","20","characters">>
MsgBadChars == <<"Short","code","can","only","contain","letters,","numbers,",
                 "hyphens,","and","underscores">>
MsgShortCodeTaken == <<"This","short","code","is","already","in","use.",
                       "Please","try","another","one.">>
\* zod's message for a key that should hold a number and does not
MsgExpectedNumber == <<"Expected","number,","received","string">>
MsgNotFound == <<"Link","not","found","or","not","owned","by","user">>
\* PostgreSQL's 23505 message for the constraint that .unique() creates
MsgUniqueViolation == <<"duplicate","key","value","violates","unique",
                        "constraint","\"links_short_code_unique\"">>

\* failures of the collaborators: the driver's message for a lost connection,
\* Clerk's message for an auth() that cannot run, the fallbacks of the catch
\* blocks for a thrown value that is no Error
MsgConnection == <<"Connection","terminated","unexpectedly">>
MsgAuthFailed == <<"Clerk:","auth()","was","called","but","Clerk","can't",
                   "detect","usage","of","clerkMiddleware()">>
MsgFailedToCreate == <<"Failed","to","create","link">>
MsgFailedToUpdate == <<"Failed","to","update","link">>
MsgFailedToDelete == <<"Failed","to","delete","link">>

\* String.prototype.includes on a message
Includes(msg, word) == \E i \in 1..Len(msg) : msg[i] = word


\* -------------------------------------------------------------- validation
\* new URL(u), which z.string().url() calls: a scheme, a colon and, for the
\* special schemes, a non-empty host
SchemeChars == Lower \cup Upper \cup Digit \cup {"+","-","."}
SpecialSchemes == {<<"h","t","t","p">>, <<"h","t","t","p","s">>, <<"f","t","p">>,
                   <<"w","s">>, <<"w","s","s">>}
ColonAt(u) == {i \in 1..Len(u) : u[i] = ":" /\ \A j \in 1..(i-1) : u[j] # ":"}
HostStart(u, i) ==
  CHOOSE k \in (i+1)..(Len(u)+1) :
    /\ \A j \in (i+1)..(k-1) : u[j] \in {"/","\\"}
    /\ (k <= Len(u) => u[k] \notin {"/","\\"})
UrlParses(u) ==
  \E i \in ColonAt(u) :
    /\ i > 1
    /\ u[1] \in Lower \cup Upper
    /\ \A j \in 1..(i-1) : u[j] \in SchemeChars
    /\ (SubSeq(u, 1, i-1) \in SpecialSchemes =>
          LET k == HostStart(u, i)
          IN  k <= Len(u) /\ u[k] \notin {"?","#",":"})

\* /^[a-zA-Z0-9-_]+$/
ShortCodeChars == Lower \cup Upper \cup Digit \cup {"-","_"}
MatchesShortCodeRegex(c) == Len(c) >= 1 /\ \A i \in 1..Len(c) : c[i] \in ShortCodeChars

MinShortCode == 3
MaxShortCode == 20

\* variant: a shortCode chain without .max()
createLinkSchema_NoMax(input) ==
  (IF UrlParses(input.url) THEN <<>> ELSE <<MsgInvalidUrl>>)
  \o (IF Len(input.shortCode) < 3 THEN <<MsgTooShort>> ELSE <<>>)
  \o (IF MatchesShortCodeRegex(input.shortCode) THEN <<>> ELSE <<MsgBadChars>>)

\* variant: the shortCode key declared before the url key
createLinkSchema_CodeFirst(input) ==
  (IF Len(input.shortCode) < 3 THEN <<MsgTooShort>> ELSE <<>>)
  \o (IF Len(input.shortCode) > 20 THEN <<MsgTooLong>> ELSE <<>>)
  \o (IF MatchesShortCodeRegex(input.shortCode) THEN <<>> ELSE <<MsgBadChars>>)
  \o (IF UrlParses(input.url) THEN <<>> ELSE <<MsgInvalidUrl>>)

\* createLinkSchema.safeParse(input).error.issues, as the sequence of their
\* messages: the keys in schema order, each string's checks in chain order
createLinkSchema(input) ==
  (IF UrlParses(input.url) THEN <<>> ELSE <<MsgInvalidUrl>>)
  \o (IF Len(input.shortCode) < MinShortCode THEN <<MsgTooShort>> ELSE <<>>)
  \o (IF Len(input.shortCode) > MaxShortCode THEN <<MsgTooLong>> ELSE <<>>)
  \o (IF MatchesShortCodeRegex(input.shortCode) THEN <<>> ELSE <<MsgBadChars>>)

\* variant: z.any() on the id key
IdIssues_Any(id) == <<>>

\* z.number() on the id key
IdIssues(id) == IF id = NotANumber THEN <<MsgExpectedNumber>> ELSE <<>>

\* editLinkSchema = createLinkSchema.extend({ id: z.number() }): the id key
\* comes after the keys of createLinkSchema
editLinkSchema(input) == createLinkSchema(input) \o IdIssues(input.id)

\* deleteLinkSchema = z.object({ id: z.number() })
deleteLinkSchema(input) == IdIssues(input.id)

\* ------------------------------------------------------------------- state
VARIABLES
  links,     \* rows of the links table
  nextId,    \* next value of the identity sequence behind links.id
  dbNow,     \* the database clock, read by defaultNow()
  appNow,    \* the application clock, read by new Date()
  calls,     \* the server-action calls waiting on the store, one per slot
  seedPc,    \* position of the seed script
  out,       \* what the step just taken returned to its caller, if anything
  resolved   \* a client that resolves one short code twice: what it was answered

vars == <<links, nextId, dbNow, appNow, calls, seedPc, out, resolved>>

NoResult == [success |-> FALSE, data |-> <<>>, error |-> <<>>]
NoInput == [id |-> 0, url |-> <<>>, shortCode |-> <<>>]
NoResponse == [status |-> 0, location |-> <<>>, body |-> {}]
Idle == [op |-> "none", pc |-> "idle", userId |-> NoUser, input |-> NoInput]
\* thrown: the message of an exception that reached the caller, if one did
NoOut == [op |-> "none", userId |-> NoUser, id |-> 0, result |-> NoResult,
          response |-> NoResponse, thrown |-> <<>>]

\* n: the requests the client has made; id: the link its first request found;
\* edited, touched: between its two requests some link was edited, the link
\* it found was edited or removed
NoResolved == [n |-> 0, code |-> <<>>, id |-> 0, first |-> NoResponse,
               second |-> NoResponse, edited |-> FALSE, touched |-> FALSE]

Failure(msg) == [success |-> FALSE, data |-> <<>>, error |-> msg]
Success(rows) == [success |-> TRUE, data |-> rows, error |-> <<>>]

\* the ActionResult a call hands back to its caller
Returns(c, result) ==
  [op |-> c.op, userId |-> c.userId, id |-> c.input.id, result |-> result,
   response |-> NoResponse, thrown |-> <<>>]

\* an exception that leaves op uncaught
Throws(op, message) ==
  [op |-> op, userId |-> NoUser, id |-> 0, result |-> NoResult,
   response |-> NoResponse, thrown |-> message]

Init ==
  /\ links = {}
  /\ nextId = 1
  /\ dbNow = 0
  /\ appNow = 0
  /\ calls = <<Idle>>
  /\ seedPc = "idle"
  /\ out = NoOut
  /\ resolved = NoResolved

\* what a write to the store means to the client between its two requests
Noted(edit) ==
  resolved' =
    IF resolved.n # 1 THEN resolved
    ELSE [resolved EXCEPT
            !.edited = @ \/ edit,
            !.touched = @ \/ ~ \E m \in links' :
                                 /\ m.id = resolved.id
                                 /\ m.shortCode = resolved.code
                                 /\ m.url = resolved.first.location]

\* ------------------------------------------------------------------- store
\* variant: an id column that hands out the lowest id no stored row has
NewRow_LowestId(data, id, now) ==
  [id |-> CHOOSE n \in 1..id : /\ \A l \in links : l.id # n
                               /\ \A k \in 1..(n - 1) : \E l \in links : l.id = k,
   userId |-> data.userId, shortCode |-> data.shortCode,
   url |-> data.url, createdAt |-> now, updatedAt |-> now]

\* variant: updated_at without its default, left at the epoch
NewRow_EpochUpdated(data, id, now) ==
  [id |-> id, userId |-> data.userId, shortCode |-> data.shortCode,
   url |-> data.url, createdAt |-> now, updatedAt |-> 0]

\* the row the table definition builds from the inserted values: identity id,
\* created_at and updated_at both DEFAULT now()
NewRow(data, id, now) ==
  [id |-> id, userId |-> data.userId, shortCode |-> data.shortCode,
   url |-> data.url, createdAt |-> now, updatedAt |-> now]

\* variant: short_code without .unique()
UniqueViolation_Off(rows, shortCode, ownId) == FALSE

\* variant: a check that counts the written row itself
UniqueViolation_AnyRow(rows, shortCode, ownId) ==
  \E l \in rows : l.shortCode = shortCode

\* variant: a constraint that only inserts are checked against
UniqueViolation_InsertOnly(rows, shortCode, ownId) ==
  /\ \A l \in rows : l.id # ownId
  /\ \E l \in rows : l.shortCode = shortCode

\* the UNIQUE constraint on short_code, seen from a row about to be written
UniqueViolation(rows, shortCode, ownId) ==
  \E l \in rows : l.shortCode = shortCode /\ l.id # ownId

\* variant: .where(eq(links.id, id))
OwnedRows_ById(rows, id, userId) == {l \in rows : l.id = id}

\* variant: .where(eq(links.userId, userId))
OwnedRows_ByUser(rows, id, userId) == {l \in rows : l.userId = userId}

\* variant: or() in place of and()
OwnedRows_Or(rows, id, userId) == {l \in rows : l.id = id \/ l.userId = userId}

\* .where(and(eq(links.id, id), eq(links.userId, userId)))
OwnedRows(rows, id, userId) == {l \in rows : l.id = id /\ l.userId = userId}

\* variant: a catch block without the "unique" branch
CaughtError_Message(message) == Failure(message)

\* the catch blocks of createLink and editLink: the message of a thrown Error
CaughtError(message) ==
  IF Includes(message, "unique") THEN Failure(MsgShortCodeTaken)
  ELSE Failure(message)

\* ------------------------------------------------------------ server actions
\* A call runs from its entry to its first store call in one step: auth() and
\* safeParse touch nothing shared.  Each later step is one store call.  A call
\* that returns leaves its slot and its ActionResult is in out.

\* variant: no check of the caller
EarlyReturn_NoAuth(userId, issues) ==
  IF issues # <<>> THEN <<Failure(issues[1])>> ELSE <<>>

\* the guard clauses every action starts with: the caller and the parse issues
EarlyReturn(userId, issues) ==
  IF userId = NoUser THEN <<Failure(MsgUnauthorized)>>
  ELSE IF issues # <<>> THEN <<Failure(issues[1])>>
  ELSE <<>>

\* a call from its entry up to its first store call
Enter(p, op, userId, input, issues, pc) ==
  LET c == [op |-> op, pc |-> pc, userId |-> userId, input |-> input]
      early == EarlyReturn(userId, issues)
  IN  /\ p \in DOMAIN calls
      /\ calls[p].pc = "idle"
      /\ IF early # <<>>
         THEN calls' = calls /\ out' = Returns(c, early[1])
         ELSE calls' = [calls EXCEPT ![p] = c] /\ out' = NoOut
      /\ UNCHANGED <<links, nextId, dbNow, appNow, seedPc, resolved>>

createLink(p, userId, input) ==
  Enter(p, "createLink", userId, input, createLinkSchema(input), "insertLink")

\* db.insert(links).values(data).returning() and createLink's handling of its
\* outcome.  The sequence value is drawn before the constraint is checked, so
\* a rejected insert consumes an id too.
insertLink(p) ==
  LET c == calls[p]
      row == NewRow([userId |-> c.userId, url |-> c.input.url,
                     shortCode |-> c.input.shortCode], nextId, dbNow)
  IN  /\ c.pc = "insertLink"
      /\ nextId' = nextId + 1
      /\ calls' = [calls EXCEPT ![p] = Idle]
      /\ IF UniqueViolation(links, row.shortCode, row.id)
         THEN links' = links /\ out' = Returns(c, CaughtError(MsgUniqueViolation))
         ELSE links' = links \cup {row} /\ out' = Returns(c, Success(<<row>>))
      /\ Noted(FALSE)
      /\ UNCHANGED <<dbNow, appNow, seedPc>>

editLink(p, userId, input) ==
  Enter(p, "editLink", userId, input, editLinkSchema(input), "updateLink_select")

\* updateLink, first store call: the ownership select
updateLink_select(p) ==
  LET c == calls[p]
  IN  /\ c.pc = "updateLink_select"
      /\ IF OwnedRows(links, c.input.id, c.userId) = {}
         THEN calls' = [calls EXCEPT ![p] = Idle]
              /\ out' = Returns(c, Failure(MsgNotFound))
         ELSE calls' = [calls EXCEPT ![p].pc = "updateLink_update"]
              /\ out' = NoOut
      /\ UNCHANGED <<links, nextId, dbNow, appNow, seedPc, resolved>>

\* variant: a .set() that also writes user_id
UpdatedRow_Reassign(l, url, shortCode, now) ==
  [l EXCEPT !.url = url, !.shortCode = shortCode, !.updatedAt = now,
            !.userId = OTHER_USER_ID]

\* the row that .set({ url, shortCode, updatedAt: new Date() }) makes of l
UpdatedRow(l, url, shortCode, now) ==
  [l EXCEPT !.url = url, !.shortCode = shortCode, !.updatedAt = now]

\* variant: an update that writes its row anew when the row is gone
updateLink_update_Upsert(p) ==
  LET c == calls[p]
      hit == OwnedRows(links, c.input.id, c.userId)
      new == IF hit = {}
             THEN {NewRow([userId |-> c.userId, url |-> c.input.url,
                           shortCode |-> c.input.shortCode], c.input.id, appNow)}
             ELSE {UpdatedRow(l, c.input.url, c.input.shortCode, appNow) : l \in hit}
  IN  /\ c.pc = "updateLink_update"
      /\ calls' = [calls EXCEPT ![p] = Idle]
      /\ IF UniqueViolation(links, c.input.shortCode, c.input.id)
         THEN links' = links /\ out' = Returns(c, CaughtError(MsgUniqueViolation))
         ELSE /\ links' = (links \ hit) \cup new
              /\ \E row \in new : out' = Returns(c, Success(<<row>>))
      /\ Noted(out'.result.success)
      /\ UNCHANGED <<nextId, dbNow, appNow, seedPc>>

\* variant: an update that writes the new row beside the old one
updateLink_update_Keep(p) ==
  LET c == calls[p]
      hit == OwnedRows(links, c.input.id, c.userId)
      new == {UpdatedRow(l, c.input.url, c.input.shortCode, appNow) : l \in hit}
  IN  /\ c.pc = "updateLink_update"
      /\ calls' = [calls EXCEPT ![p] = Idle]
      /\ IF hit = {}
         THEN links' = links /\ out' = Returns(c, Failure(MsgNotFound))
         ELSE IF UniqueViolation(links, c.input.shortCode, c.input.id)
         THEN links' = links /\ out' = Returns(c, CaughtError(MsgUniqueViolation))
         ELSE /\ links' = links \cup new
              /\ \E row \in new : out' = Returns(c, Success(<<row>>))
      /\ Noted(out'.result.success)
      /\ UNCHANGED <<nextId, dbNow, appNow, seedPc>>

\* updateLink, second store call: the scoped update, and editLink's handling
\* of its outcome
updateLink_update(p) ==
  LET c == calls[p]
      hit == OwnedRows(links, c.input.id, c.userId)
      new == {UpdatedRow(l, c.input.url, c.input.shortCode, appNow) : l \in hit}
  IN  /\ c.pc = "updateLink_update"
      /\ calls' = [calls EXCEPT ![p] = Idle]
      /\ IF hit = {}
         THEN links' = links /\ out' = Returns(c, Failure(MsgNotFound))
         ELSE IF UniqueViolation(links, c.input.shortCode, c.input.id)
         THEN links' = links /\ out' = Returns(c, CaughtError(MsgUniqueViolation))
         ELSE /\ links' = (links \ hit) \cup new
              /\ \E row \in new : out' = Returns(c, Success(<<row>>))
      /\ Noted(out'.result.success)
      /\ UNCHANGED <<nextId, dbNow, appNow, seedPc>>

deleteLinkAction(p, userId, input) ==
  Enter(p, "deleteLinkAction", userId, input, deleteLinkSchema(input),
        "deleteLinkById_select")

\* deleteLinkById, first store call: the ownership select
deleteLinkById_select(p) ==
  LET c == calls[p]
  IN  /\ c.pc = "deleteLinkById_select"
      /\ IF OwnedRows(links, c.input.id, c.userId) = {}
         THEN calls' = [calls EXCEPT ![p] = Idle]
              /\ out' = Returns(c, Failure(MsgNotFound))
         ELSE calls' = [calls EXCEPT ![p].pc = "deleteLinkById_delete"]
              /\ out' = NoOut
      /\ UNCHANGED <<links, nextId, dbNow, appNow, seedPc, resolved>>

\* variant: db.delete(links) without its where clause
deleteLinkById_delete_All(p) ==
  LET c == calls[p]
  IN  /\ c.pc = "deleteLinkById_delete"
      /\ links' = {}
      /\ calls' = [calls EXCEPT ![p] = Idle]
      /\ out' = Returns(c, Success(<<>>))
      /\ Noted(FALSE)
      /\ UNCHANGED <<nextId, dbNow, appNow, seedPc>>

\* deleteLinkById, second store call: the scoped delete; it returns true
\* whatever the number of rows removed
deleteLinkById_delete(p) ==
  LET c == calls[p]
  IN  /\ c.pc = "deleteLinkById_delete"
      /\ links' = links \ OwnedRows(links, c.input.id, c.userId)
      /\ calls' = [calls EXCEPT ![p] = Idle]
      /\ out' = Returns(c, Success(<<>>))
      /\ Noted(FALSE)
      /\ UNCHANGED <<nextId, dbNow, appNow, seedPc>>

\* ----------------------------------------------------------------- failures
Actions == {"createLink", "editLink", "deleteLinkAction"}

\* await auth() rejects; the actions call it before their try block
AuthFails(p, op) ==
  /\ p \in DOMAIN calls
  /\ calls[p].pc = "idle"
  /\ out' = Throws(op, MsgAuthFailed)
  /\ UNCHANGED <<links, nextId, dbNow, appNow, calls, seedPc, resolved>>

\* what a store call may reject with: an Error, or a value that is none
StoreErrors == {[isError |-> TRUE, message |-> MsgConnection],
                [isError |-> FALSE, message |-> <<>>]}

\* variant: catch blocks that blame the short code for every failure
Caught_Taken(op, e) == Failure(MsgShortCodeTaken)

\* the catch block of op, given the value thrown
Caught(op, e) ==
  IF e.isError
  THEN IF op = "deleteLinkAction" THEN Failure(e.message) ELSE CaughtError(e.message)
  ELSE IF op = "createLink" THEN Failure(MsgFailedToCreate)
  ELSE IF op = "editLink" THEN Failure(MsgFailedToUpdate)
  ELSE Failure(MsgFailedToDelete)

\* the store call a waiting call is at rejects with e, nothing written
StoreFails(p, e) ==
  LET c == calls[p]
  IN  /\ c.pc # "idle"
      /\ calls' = [calls EXCEPT ![p] = Idle]
      /\ out' = Returns(c, Caught(c.op, e))
      /\ UNCHANGED <<links, nextId, dbNow, appNow, seedPc, resolved>>

\* ---------------------------------------------------------------- dashboard
\* the ways of putting the rows of S in a row, each once
Orderings(S) ==
  {f \in [1..Cardinality(S) -> S] :
     \A i, j \in 1..Cardinality(S) : i # j => f[i] # f[j]}

\* variant: orderBy(asc(links.updatedAt))
getUserLinks_Asc(rows, userId) ==
  {f \in Orderings({l \in rows : l.userId = userId}) :
     \A i, j \in DOMAIN f : i < j => f[i].updatedAt <= f[j].updatedAt}

\* select ... where user_id = userId order by updated_at desc: the results the
\* store may hand back, rows with equal updated_at in any order
getUserLinks(rows, userId) ==
  {f \in Orderings({l \in rows : l.userId = userId}) :
     \A i, j \in DOMAIN f : i < j => f[i].updatedAt >= f[j].updatedAt}

\* redirect("/") of a signed-out visitor
HomeRedirect == [status |-> 307, location |-> <<"/">>, body |-> {}]

\* what the page was rendered from
Renders(userId, userLinks) ==
  [op |-> "DashboardPage", userId |-> userId, id |-> 0,
   result |-> Success(userLinks), response |-> NoResponse, thrown |-> <<>>]

\* DashboardPage(): auth(), then the list of the visitor's links
DashboardPage(userId) ==
  /\ IF userId = NoUser
     THEN out' = [Renders(userId, <<>>) EXCEPT !.result = NoResult,
                                              !.response = HomeRedirect]
     ELSE \E userLinks \in getUserLinks(links, userId) :
            out' = Renders(userId, userLinks)
  /\ UNCHANGED <<links, nextId, dbNow, appNow, calls, seedPc, resolved>>

\* ------------------------------------------------------------- seed script
\* seed(), first store call: select ... where user_id = SEED_USER_ID limit 1;
\* a row found ends the script (process.exit(0))
seed_select ==
  /\ seedPc = "idle"
  /\ seedPc' = IF {l \in links : l.userId = SEED_USER_ID} # {}
               THEN "idle" ELSE "insert"
  /\ out' = NoOut
  /\ UNCHANGED <<links, nextId, dbNow, appNow, calls, resolved>>

\* the rows of one multi-row insert that the constraint rejects
SeedRejected(rows) ==
  {k \in 1..Len(SeedBatch) : UniqueViolation(rows, SeedBatch[k].shortCode, 0)}
SeedMin(S) == CHOOSE k \in S : \A j \in S : k <= j

\* seed(), second store call: db.insert(links).values(seedData); the statement
\* is atomic, a rejected row leaves no row behind but keeps the ids drawn
seed_insert ==
  /\ seedPc = "insert"
  /\ seedPc' = "idle"
  /\ IF SeedRejected(links) # {}
     THEN /\ links' = links
          /\ nextId' = nextId + SeedMin(SeedRejected(links))
     ELSE /\ links' = links \cup
               {NewRow(SeedBatch[k], nextId + k - 1, dbNow) : k \in 1..Len(SeedBatch)}
          /\ nextId' = nextId + Len(SeedBatch)
  /\ out' = NoOut
  /\ Noted(FALSE)
  /\ UNCHANGED <<dbNow, appNow, calls>>

\* ---------------------------------------------------------- redirect handler
\* the store lookup behind the handler: the rows with that short code
getLinkByShortCode(rows, shortcode) == {l \in rows : l.shortCode = shortcode}

StatusTemporaryRedirect == 307
StatusNotFound == 404
MsgLinkNotFound == <<"Link","not","found">>

\* variant: a 404 without the JSON body
NotFoundResponse_NoBody ==
  [status |-> StatusNotFound, location |-> <<>>, body |-> {}]

\* NextResponse.json({ error: "Link not found" }, { status: 404 })
NotFoundResponse ==
  [status |-> StatusNotFound, location |-> <<>>,
   body |-> {<<"error", MsgLinkNotFound>>}]

\* variant: a redirect to the short code instead of the url
RedirectResponse_ToCode(link) ==
  [status |-> StatusTemporaryRedirect, location |-> link.shortCode, body |-> {}]

\* NextResponse.redirect(link.url, 307)
RedirectResponse(link) ==
  [status |-> StatusTemporaryRedirect, location |-> link.url, body |-> {}]

\* what the handler hands back for a request; no caller is recorded, the
\* handler never reads one
Responds(response) ==
  [op |-> "GET", userId |-> NoUser, id |-> 0, result |-> NoResult,
   response |-> response, thrown |-> <<>>]

\* variant: a lookup without its where clause
GETResponses_AnyLink(rows, shortcode) ==
  IF rows = {} THEN {NotFoundResponse}
  ELSE {RedirectResponse(link) : link \in rows}

\* the handler's answers to a request for shortcode over the rows stored
GETResponses(rows, shortcode) ==
  LET found == getLinkByShortCode(rows, shortcode)
  IN  IF found = {} THEN {NotFoundResponse}
      ELSE {RedirectResponse(link) : link \in found}

\* GET /l/[shortcode], asked by userId (or by nobody signed in); the handler
\* never asks who calls
Handles(userId, shortcode) ==
  /\ \E r \in GETResponses(links, shortcode) : out' = Responds(r)
  /\ UNCHANGED <<links, nextId, dbNow, appNow, calls, seedPc>>

\* the lookup rejects; the handler has no try block
LookupFails(userId, shortcode) ==
  /\ out' = Throws("GET", MsgConnection)
  /\ UNCHANGED <<links, nextId, dbNow, appNow, calls, seedPc, resolved>>

\* a request of anyone but the client
GET(userId, shortcode) ==
  /\ Handles(userId, shortcode)
  /\ UNCHANGED resolved

\* a request of the client: its first for any code, its second for the same
Resolve(userId, shortcode) ==
  /\ resolved.n = 0 \/ (resolved.n = 1 /\ resolved.code = shortcode)
  /\ Handles(userId, shortcode)
  /\ resolved' =
       IF resolved.n = 0
       THEN [NoResolved EXCEPT
               !.n = 1, !.code = shortcode, !.first = out'.response,
               !.id = IF getLinkByShortCode(links, shortcode) = {} THEN 0
                      ELSE (CHOOSE l \in getLinkByShortCode(links, shortcode) : TRUE).id]
       ELSE [resolved EXCEPT !.n = 2, !.second = out'.response]

\* ------------------------------------------------------------------- clocks
TickDb ==
  /\ dbNow < MaxTime
  /\ dbNow' = dbNow + 1
  /\ out' = NoOut
  /\ UNCHANGED <<links, nextId, appNow, calls, seedPc, resolved>>

TickApp ==
  /\ appNow < MaxTime
  /\ appNow' = appNow + 1
  /\ out' = NoOut
  /\ UNCHANGED <<links, nextId, dbNow, calls, seedPc, resolved>>

\* ------------------------------------------------------------ specification
\* Spec: one call at a time, by any caller signed in or not, with valid and
\* invalid input, the seed script and the redirect handler, all within one
\* reading of the clocks.  The requests: the valid pairs, and one request per
\* way of being invalid.
ValidUrls == {UrlA, UrlB}
ValidCodes == {CodeAbc, seedData[1].shortCode}
ValidPairs == ValidUrls \X ValidCodes
InvalidPairs == {<<UrlBad, CodeAbc>>, <<UrlA, CodeTwo>>}
CreateInputs ==
  {[id |-> 0, url |-> x[1], shortCode |-> x[2]] : x \in ValidPairs \cup InvalidPairs}
EditInputs ==
  {[id |-> i, url |-> x[1], shortCode |-> x[2]] : i \in InputIds, x \in ValidPairs}
  \cup {[id |-> 1, url |-> x[1], shortCode |-> x[2]] : x \in InvalidPairs}
  \cup {[id |-> NotANumber, url |-> UrlA, shortCode |-> CodeAbc]}
DeleteInputs ==
  {[id |-> i, url |-> <<>>, shortCode |-> <<>>] : i \in InputIds \cup {NotANumber}}
GetCodes == ValidCodes \cup {CodeTwo}

Procs == DOMAIN calls

Next ==
  \/ \E p \in Procs, u \in Callers, i \in CreateInputs : createLink(p, u, i)
  \/ \E p \in Procs : nextId <= MaxId /\ insertLink(p)
  \/ \E p \in Procs, u \in Callers, i \in EditInputs : editLink(p, u, i)
  \/ \E p \in Procs : updateLink_select(p)
  \/ \E p \in Procs : updateLink_update(p)
  \/ \E p \in Procs, u \in Callers, i \in DeleteInputs : deleteLinkAction(p, u, i)
  \/ \E p \in Procs : deleteLinkById_select(p)
  \/ \E p \in Procs : deleteLinkById_delete(p)
  \/ seed_select
  \/ (nextId + Len(SeedBatch) - 1 <= MaxId /\ seed_insert)
  \/ \E u \in Callers, c \in GetCodes : GET(u, c)

Spec == Init /\ [][Next]_vars

\* SpecClock: one call at a time, creates and edits by signed-in callers with
\* valid input, while the database clock and the application clock advance
\* independently of each other
ClockInputs ==
  {[id |-> i, url |-> UrlA, shortCode |-> c] : i \in {0} \cup InputIds, c \in ValidCodes}

NextClock ==
  \/ \E p \in Procs, u \in UserIds, i \in ClockInputs : i.id = 0 /\ createLink(p, u, i)
  \/ \E p \in Procs : nextId <= MaxId /\ insertLink(p)
  \/ \E p \in Procs, u \in UserIds, i \in ClockInputs : i.id # 0 /\ editLink(p, u, i)
  \/ \E p \in Procs : updateLink_select(p)
  \/ \E p \in Procs : updateLink_update(p)
  \/ \E u \in Callers : DashboardPage(u)
  \/ TickDb
  \/ TickApp

SpecClock == Init /\ [][NextClock]_vars

\* SpecResolve: one call at a time, creates, edits and deletes by one signed-in
\* caller with valid input, and a client that resolves one short code twice
NextResolve ==
  \/ \E p \in Procs, u \in {SEED_USER_ID}, i \in CreateInputs :
        <<i.url, i.shortCode>> \in ValidPairs /\ createLink(p, u, i)
  \/ \E p \in Procs : nextId <= MaxId /\ insertLink(p)
  \/ \E p \in Procs, u \in {SEED_USER_ID}, i \in EditInputs :
        <<i.url, i.shortCode>> \in ValidPairs /\ editLink(p, u, i)
  \/ \E p \in Procs : updateLink_select(p)
  \/ \E p \in Procs : updateLink_update(p)
  \/ \E p \in Procs, u \in {SEED_USER_ID}, i \in DeleteInputs : deleteLinkAction(p, u, i)
  \/ \E p \in Procs : deleteLinkById_select(p)
  \/ \E p \in Procs : deleteLinkById_delete(p)
  \/ \E u \in Callers, c \in ValidCodes : Resolve(u, c)

SpecResolve == Init /\ [][NextResolve]_vars

\* SpecRename: one call at a time, creates of any signed-in caller, edits of
\* one of them that write another url, the client that resolves one short code
\* twice, and the requests of everyone else
NextRename ==
  \/ \E p \in Procs, u \in UserIds, c \in ValidCodes :
        createLink(p, u, [id |-> 0, url |-> UrlA, shortCode |-> c])
  \/ \E p \in Procs : nextId <= MaxId /\ insertLink(p)
  \/ \E p \in Procs, i \in InputIds, c \in ValidCodes :
        editLink(p, SEED_USER_ID, [id |-> i, url |-> UrlB, shortCode |-> c])
  \/ \E p \in Procs : updateLink_select(p)
  \/ \E p \in Procs : updateLink_update(p)
  \/ \E u \in Callers, c \in ValidCodes : Resolve(u, c)
  \/ \E u \in Callers, c \in ValidCodes : GET(u, c)

SpecRename == Init /\ [][NextRename]_vars

\* SpecReuse: two calls of one signed-in caller in flight at a time, a create
\* or delete beside an edit or delete, the client that resolves the short code
\* the edits ask for twice, and the caller's dashboard
InitReuse ==
  /\ links = {}
  /\ nextId = 1
  /\ dbNow = 0
  /\ appNow = 0
  /\ calls = <<Idle, Idle>>
  /\ seedPc = "idle"
  /\ out = NoOut
  /\ resolved = NoResolved

NextReuse ==
  \/ \E c \in ValidCodes :
        createLink(1, SEED_USER_ID, [id |-> 0, url |-> UrlA, shortCode |-> c])
  \/ \E p \in Procs : nextId <= MaxId /\ insertLink(p)
  \/ \E i \in InputIds :
        editLink(2, SEED_USER_ID, [id |-> i, url |-> UrlB, shortCode |-> CodeAbc])
  \/ \E p \in Procs : updateLink_select(p)
  \/ \E p \in Procs : updateLink_update(p)
  \/ \E p \in Procs, i \in DeleteInputs :
        i.id # NotANumber /\ deleteLinkAction(p, SEED_USER_ID, i)
  \/ \E p \in Procs : deleteLinkById_select(p)
  \/ \E p \in Procs : deleteLinkById_delete(p)
  \/ \E u \in Callers : Resolve(u, CodeAbc)
  \/ DashboardPage(SEED_USER_ID)

SpecReuse == InitReuse /\ [][NextReuse]_vars

\* SpecParse: calls by signed-in callers to a store that holds no link yet,
\* with short codes of every length up to MaxCodeLen, of allowed characters
\* and not, a url that parses and one that does not, a numeric id and none
CodeChars == CodeTwenty \o <<"-","_","A","Z">>
CodeOfLen(n) == SubSeq(CodeChars, 1, n)
BadCodes == {<<"a","!">>, <<"a","b","!">>, CodeTwenty \o <<"!">>}
ParseCodes == {CodeOfLen(n) : n \in 0..MaxCodeLen} \cup BadCodes
ParseInputs(ids) ==
  {[id |-> i, url |-> x, shortCode |-> c] :
     i \in ids, x \in {UrlA, UrlBad}, c \in ParseCodes}

NextParse ==
  \/ \E p \in Procs, u \in UserIds, i \in ParseInputs({0}) :
        links = {} /\ createLink(p, u, i)
  \/ \E p \in Procs : nextId <= MaxId /\ insertLink(p)
  \/ \E p \in Procs, u \in UserIds, i \in ParseInputs({1, NotANumber}) :
        links = {} /\ editLink(p, u, i)
  \/ \E p \in Procs : updateLink_select(p)

SpecParse == Init /\ [][NextParse]_vars

\* SpecFail: one call at a time as in Spec, with collaborators that may fail:
\* auth() of an action, the store call of a waiting call, the handler's lookup
NextFail ==
  \/ \E p \in Procs, u \in Callers, i \in CreateInputs : createLink(p, u, i)
  \/ \E p \in Procs : nextId <= MaxId /\ insertLink(p)
  \/ \E p \in Procs, u \in Callers, i \in EditInputs : editLink(p, u, i)
  \/ \E p \in Procs : updateLink_select(p)
  \/ \E p \in Procs : updateLink_update(p)
  \/ \E p \in Procs, u \in Callers, i \in DeleteInputs : deleteLinkAction(p, u, i)
  \/ \E p \in Procs : deleteLinkById_select(p)
  \/ \E p \in Procs : deleteLinkById_delete(p)
  \/ \E u \in Callers, c \in GetCodes : GET(u, c)
  \/ \E p \in Procs, op \in Actions : AuthFails(p, op)
  \/ \E p \in Procs, e \in StoreErrors : StoreFails(p, e)
  \/ \E u \in Callers, c \in GetCodes : LookupFails(u, c)

SpecFail == Init /\ [][NextFail]_vars

\* ------------------------------------------------------- concurrent calls
\* A store the program reaches: the first seed row, a link of the other user
\* and a second link of the seed user, three ids drawn.
CodeDup == <<"d","u","p","1">>
RaceStore ==
  {NewRow(seedData[1], 1, 0),
   NewRow([userId |-> OTHER_USER_ID, url |-> UrlA, shortCode |-> CodeTwenty], 2, 0),
   NewRow([userId |-> SEED_USER_ID, url |-> UrlB, shortCode |-> CodeDup], 3, 0)}
RaceNextId == 4

\* the slot of a call that has passed its guard clauses
Waiting(op, pc, userId, input) ==
  [op |-> op, pc |-> pc, userId |-> userId, input |-> input]

\* SpecRace: NumRacers authenticated valid calls, creates by any user and
\* edits of a link by its owner, all asking for one unused short code
RaceCalls(code) ==
  {Waiting("createLink", "insertLink", u, [id |-> 0, url |-> x, shortCode |-> code]) :
     u \in UserIds, x \in {UrlA, UrlB}}
  \cup
  {Waiting("editLink", "updateLink_select", l.userId,
           [id |-> l.id, url |-> x, shortCode |-> code]) :
     l \in RaceStore, x \in {UrlA, UrlB}}

InitRace ==
  /\ links = RaceStore
  /\ nextId = RaceNextId
  /\ dbNow = 0
  /\ appNow = 0
  /\ calls \in [1..NumRacers -> RaceCalls(CodeAbc)]
  /\ seedPc = "idle"
  /\ out = NoOut
  /\ resolved = NoResolved

NextRace ==
  \/ \E p \in Procs : insertLink(p)
  \/ \E p \in Procs : updateLink_select(p)
  \/ \E p \in Procs : updateLink_update(p)

SpecRace == InitRace /\ [][NextRace]_vars

\* SpecConc: NumRacers authenticated valid calls of any kind, on own links,
\* on links of others and on ids that name no link, run to their end
ConcCalls ==
  {Waiting("createLink", "insertLink", u, [id |-> 0, url |-> UrlA, shortCode |-> c]) :
     u \in UserIds, c \in {CodeAbc, CodeDup}}
  \cup
  {Waiting("editLink", "updateLink_select", u,
           [id |-> i, url |-> UrlA, shortCode |-> c]) :
     u \in UserIds, i \in {1, 2, RaceNextId}, c \in {CodeAbc, CodeDup}}
  \cup
  {Waiting("deleteLinkAction", "deleteLinkById_select", u,
           [id |-> i, url |-> <<>>, shortCode |-> <<>>]) :
     u \in UserIds, i \in {1, 2, RaceNextId}}

InitConc ==
  /\ links = RaceStore
  /\ nextId = RaceNextId
  /\ dbNow = 0
  /\ appNow \in 0..MaxTime
  /\ calls \in [1..NumRacers -> ConcCalls]
  /\ seedPc = "idle"
  /\ out = NoOut
  /\ resolved = NoResolved

NextConc ==
  \/ \E p \in Procs : insertLink(p)
  \/ \E p \in Procs : updateLink_select(p)
  \/ \E p \in Procs : updateLink_update(p)
  \/ \E p \in Procs : deleteLinkById_select(p)
  \/ \E p \in Procs : deleteLinkById_delete(p)

SpecConc == InitConc /\ [][NextConc]_vars

\* ---------------------------------------------------------------- properties
\* a call p that hands back its result in this step
ReturnsNow(p) == calls[p].pc # "idle" /\ calls'[p].pc = "idle"

\* a row of the current store is edited or removed by this step
Touched(l) ==
  ~ \E m \in links' : m.id = l.id /\ m.url = l.url /\ m.shortCode = l.shortCode

\* C1: in every reachable state no two stored links have the same shortCode.
C1_UniqueShortCode ==
  \A a, b \in links : a.shortCode = b.shortCode => a = b

\* two links are stored and an edit has just been refused for a taken code
C1_Witness ==
  /\ Cardinality(links) >= 2
  /\ out.op = "editLink"
  /\ out.result = Failure(MsgShortCodeTaken)

\* C2: a link's url or shortCode changes, or the link is removed, only in a
\* step in which an editLink or deleteLinkAction call for that link's id
\* returns success to a caller whose id is the link's userId.
C2_OnlyOwnerMutates ==
  [][\A l \in links :
       Touched(l) =>
         /\ out'.op \in {"editLink", "deleteLinkAction"}
         /\ out'.result.success
         /\ out'.id = l.id
         /\ out'.userId = l.userId]_vars

\* an owner has just edited a link while a link of another user is stored
C2_Witness ==
  /\ out.op = "editLink"
  /\ out.result.success
  /\ \E l \in links : l.userId # out.userId

\* C3, as stated: of the concurrent creates and edits that ask for one unused
\* shortCode exactly one succeeds and the others get ShortCodeTaken, that is,
\* a call returning once the code is stored gets ShortCodeTaken and a call
\* returning before gets success.
C3_ExactlyOneSucceeds ==
  [][\A p \in DOMAIN calls :
       ReturnsNow(p) =>
         IF \E l \in links : l.shortCode = calls[p].input.shortCode
         THEN out'.result = Failure(MsgShortCodeTaken)
         ELSE out'.result.success]_vars

\* C3, amended: a call returning once the code is stored on a link other than
\* the one it edits gets ShortCodeTaken; any other call succeeds, so calls
\* that edit pairwise different links or create have exactly one winner.
C3_OneWinnerPerLink ==
  [][\A p \in DOMAIN calls :
       ReturnsNow(p) =>
         IF \E l \in links : /\ l.shortCode = calls[p].input.shortCode
                             /\ l.id # calls[p].input.id
         THEN out'.result = Failure(MsgShortCodeTaken) /\ links' = links
         ELSE out'.result.success]_vars

\* every racer has returned, the last one refused, and one link has the code
C3_Witness ==
  /\ \A p \in DOMAIN calls : calls[p].pc = "idle"
  /\ out.result = Failure(MsgShortCodeTaken)
  /\ Cardinality({l \in links : l.shortCode = CodeAbc}) = 1

\* C4: the ownership check and the write are one store operation, so a call
\* that has passed the check and has yet to write still finds its row.
C4_CheckedRowStillThere ==
  \A p \in DOMAIN calls :
    calls[p].pc \in {"updateLink_update", "deleteLinkById_delete"} =>
      OwnedRows(links, calls[p].input.id, calls[p].userId) # {}

\* C5: a createLink, editLink or deleteLinkAction call without a user id
\* returns Unauthorized in its first step, before any store call, and leaves
\* the store as it was.
C5_Unauthorized ==
  [][\A p \in DOMAIN calls :
       /\ \A i \in CreateInputs : createLink(p, NoUser, i) =>
            out'.result = Failure(MsgUnauthorized) /\ calls' = calls /\ links' = links
       /\ \A i \in EditInputs : editLink(p, NoUser, i) =>
            out'.result = Failure(MsgUnauthorized) /\ calls' = calls /\ links' = links
       /\ \A i \in DeleteInputs : deleteLinkAction(p, NoUser, i) =>
            out'.result = Failure(MsgUnauthorized) /\ calls' = calls /\ links' = links]_vars

\* a signed-out delete has just been refused and the store holds a link
C5_Witness ==
  /\ out.op = "deleteLinkAction"
  /\ out.userId = NoUser
  /\ out.result = Failure(MsgUnauthorized)
  /\ links # {}

C7_ShortCodeTaken ==
  [][\A p \in DOMAIN calls :
       /\ insertLink(p)
       /\ \E l \in links : l.shortCode = calls[p].input.shortCode
       => /\ out'.result = Failure(MsgShortCodeTaken)
          /\ links' = links]_vars

\* a create has just been refused for a code that only other users hold
C7_Witness ==
  /\ out.op = "createLink"
  /\ out.result = Failure(MsgShortCodeTaken)
  /\ links # {}
  /\ \A l \in links : l.userId # out.userId

\* C8: a createLink whose shortCode is unused when it inserts succeeds and adds
\* exactly one link, the one it returns: submitted url and shortCode, the
\* caller's userId, an id no link has and none had before, updatedAt equal to
\* createdAt.
C8_CreateSucceeds ==
  [][\A p \in DOMAIN calls :
       /\ insertLink(p)
       /\ ~ \E l \in links : l.shortCode = calls[p].input.shortCode
       => /\ out'.result.success
          /\ Len(out'.result.data) = 1
          /\ LET r == out'.result.data[1]
             IN  /\ links' = links \cup {r}
                 /\ r \notin links
                 /\ r.url = calls[p].input.url
                 /\ r.shortCode = calls[p].input.shortCode
                 /\ r.userId = calls[p].userId
                 /\ r.id >= nextId
                 /\ \A l \in links : l.id # r.id
                 /\ r.updatedAt = r.createdAt]_vars

\* a second link has just been created, after the database clock moved
C8_Witness ==
  /\ out.op = "createLink"
  /\ out.result.success
  /\ Cardinality(links) = 2
  /\ out.result.data[1].createdAt > 0

\* C9: right after a successful createLink with (url, shortCode) the handler's
\* only response for that shortCode is the redirect to that url, and it stays
\* so in every later state in which the link is stored unedited.
C9_RoundTrip ==
  [][/\ \A p \in DOMAIN calls :
          insertLink(p) /\ out'.result.success =>
            \A r \in GETResponses(links', calls[p].input.shortCode) :
              r.status = StatusTemporaryRedirect /\ r.location = calls[p].input.url
     /\ \A l \in links' :
          GETResponses(links', l.shortCode) = {RedirectResponse(l)}]_vars

\* a created link, next to a seeded one, has just been resolved to its url
C9_Witness ==
  /\ out.op = "GET"
  /\ out.response.status = StatusTemporaryRedirect
  /\ out.response.location = UrlA
  /\ \E l \in links : l.url = UrlA /\ l.shortCode = CodeAbc
  /\ \E l \in links : l.url # UrlA

\* C10: the handler, for any caller signed in or not and any short code,
\* answers 307 with the stored url when a link has the code, whoever owns it,
\* answers 404 with {"error": "Link not found"} when none has, and leaves the
\* store as it was.
C10_Redirect ==
  [][\A u \in Callers, c \in GetCodes :
       GET(u, c) =>
         /\ links' = links
         /\ IF \E l \in links : l.shortCode = c
            THEN \E l \in links :
                   /\ l.shortCode = c
                   /\ out'.response.status = 307
                   /\ out'.response.location = l.url
            ELSE /\ out'.response.status = 404
                 /\ out'.response.body = {<<"error", <<"Link","not","found">>>>}]_vars

\* a short code has just been answered 404 while another code is stored
C10_Witness ==
  /\ out.op = "GET"
  /\ out.response.status = 404
  /\ links # {}

\* C11, as stated: a client that resolves one short code twice and is
\* redirected both times gets the same url both times if no edit succeeded
\* between its two requests.
C11_SameUrlUnlessEdited ==
  /\ resolved.n = 2
  /\ resolved.first.status = StatusTemporaryRedirect
  /\ resolved.second.status = StatusTemporaryRedirect
  /\ ~ resolved.edited
  => resolved.second.location = resolved.first.location

\* C11, amended: a client that resolves one short code twice and is redirected
\* the first time gets the same redirect the second time if the link it found
\* was neither edited nor deleted between its two requests, whatever happened
\* to other links.
C11_SameUrlWhileStored ==
  /\ resolved.n = 2
  /\ resolved.first.status = StatusTemporaryRedirect
  /\ ~ resolved.touched
  => resolved.second = resolved.first

\* the client was redirected twice while another link was edited in between
C11_Witness ==
  /\ resolved.n = 2
  /\ resolved.first.status = StatusTemporaryRedirect
  /\ ~ resolved.touched
  /\ resolved.edited

\* C12: a stored link keeps its userId in every step, whoever calls createLink,
\* editLink or deleteLinkAction, and an id names one link for ever: every
\* stored id is below the identity sequence and a new row draws its id from it.
C12_OwnerNeverChanges ==
  [][/\ \A l \in links : \A m \in links' : m.id = l.id => m.userId = l.userId
     /\ \A l \in links : l.id < nextId
     /\ \A m \in links' :
          (\A l \in links : l.id # m.id) => m.id >= nextId /\ m.id < nextId']_vars

\* an owner has just moved a link to a new short code and still owns it
C12_Witness ==
  /\ out.op = "editLink"
  /\ out.result.success
  /\ \E l \in links : /\ l.id = out.id
                       /\ l.userId = out.userId
                       /\ l.shortCode = CodeAbc

\* C13: in every reachable state every stored link has updatedAt >= createdAt,
\* createdAt read from the database clock at the insert and updatedAt written
\* from the application clock at each edit.
C13_UpdatedNotBeforeCreated ==
  \A l \in links : l.updatedAt >= l.createdAt

\* C14: the list the dashboard of a signed-in user is rendered from holds
\* every stored link of that user once and no other row, most recently
\* updated first; for a user without links it is the empty sequence, and the
\* store is left as it was.
C14_ListByUser ==
  [][\A u \in UserIds :
       DashboardPage(u) =>
         LET userLinks == out'.result.data
             owned == {l \in links : l.userId = u}
         IN  /\ out'.result.success
             /\ Len(userLinks) = Cardinality(owned)
             /\ {userLinks[i] : i \in 1..Len(userLinks)} = owned
             /\ \A i \in 1..(Len(userLinks) - 1) :
                  userLinks[i].updatedAt >= userLinks[i+1].updatedAt
             /\ (owned = {} => userLinks = <<>>)
             /\ links' = links]_vars

\* a user's two links are listed, the older one first since it was edited later
C14_Witness ==
  /\ out.op = "DashboardPage"
  /\ Len(out.result.data) = 2
  /\ out.result.data[1].updatedAt > out.result.data[2].updatedAt
  /\ out.result.data[1].id < out.result.data[2].id

\* C15: what a createLink, editLink or deleteLinkAction call hands its caller
\* is {success: true, data} or {success: false, error} and never an exception,
\* also when auth() or a store call fails.
C15_NoExceptionPropagates ==
  out.op \in Actions =>
    /\ out.thrown = <<>>
    /\ IF out.result.success THEN out.result.error = <<>>
       ELSE out.result.error # <<>> /\ out.result.data = <<>>

\* C16: the redirect handler hands back a response, the redirect or the 404,
\* and never an exception, also when the store lookup fails.
C16_HandlerNeverRaises ==
  out.op = "GET" =>
    /\ out.thrown = <<>>
    /\ out.response.status \in {StatusTemporaryRedirect, StatusNotFound}

\* C17: a deleteLinkAction call reports success exactly when its own delete
\* removed a row, and the not-found failure otherwise; so of two concurrent
\* deletes of one link by its owner one succeeds and the other is refused.
C17_TrueIffRemoved ==
  [][\A p \in DOMAIN calls :
       calls[p].op = "deleteLinkAction" /\ ReturnsNow(p) =>
         IF links' # links THEN out'.result = Success(<<>>)
         ELSE out'.result = Failure(MsgNotFound)]_vars

\* C18: an editLink call that reaches its update on a link its caller owns,
\* with a shortCode that a different link holds, fails with ShortCodeTaken and
\* leaves the store as it was: the link keeps its url, shortCode and updatedAt.
C18_EditShortCodeTaken ==
  [][\A p \in DOMAIN calls :
       /\ updateLink_update(p)
       /\ \E l \in links : l.id = calls[p].input.id /\ l.userId = calls[p].userId
       /\ \E l \in links : /\ l.shortCode = calls[p].input.shortCode
                           /\ l.id # calls[p].input.id
       => /\ out'.result = Failure(MsgShortCodeTaken)
          /\ links' = links]_vars

\* an owner's edit has just been refused for a code another user's link holds
C18_Witness ==
  /\ out.op = "editLink"
  /\ out.result = Failure(MsgShortCodeTaken)
  /\ \E l \in links : l.id = out.id /\ l.userId = out.userId
  /\ \E l \in links : l.shortCode = CodeAbc /\ l.userId # out.userId

\* C19: for a createLink or editLink call by a signed-in caller with a url that
\* parses, a shortCode of allowed characters only and, for editLink, a numeric
\* id, validation lets the call through to the store exactly when the length
\* of the shortCode lies in 3..20, which the short_code column can hold; a
\* shorter or longer one is refused as an invalid short code.
C19_LengthBoundaries ==
  [][\A p \in DOMAIN calls : \A u \in UserIds :
       \A i \in ParseInputs({0, 1}) :
         /\ createLink(p, u, i) \/ editLink(p, u, i)
         /\ i.url = UrlA
         /\ \A k \in 1..Len(i.shortCode) : i.shortCode[k] \in ShortCodeChars
         => IF Len(i.shortCode) \in 3..20
            THEN /\ out' = NoOut
                 /\ calls'[p].pc \in {"insertLink", "updateLink_select"}
                 /\ calls'[p].input = i
            ELSE /\ out'.result =
                      Failure(IF Len(i.shortCode) < 3 THEN MsgTooShort ELSE MsgTooLong)
                 /\ calls' = calls
                 /\ links' = links]_vars

\* a link with a short code of length 20 has just been created
C19_Witness ==
  /\ out.op = "createLink"
  /\ out.result.success
  /\ \E l \in links : Len(l.shortCode) = 20

\* C20: a createLink or editLink call by a signed-in caller whose input breaks
\* a validation rule returns one failure, that of the first rule broken in the
\* order url, shortCode minimum length, maximum length, character set, id, and
\* makes no store call.
C20_FirstViolatedRule ==
  [][\A p \in DOMAIN calls : \A u \in UserIds :
       \A i \in ParseInputs({0, 1, NotANumber}) :
         LET badChars == \/ i.shortCode = <<>>
                         \/ \E k \in 1..Len(i.shortCode) :
                              i.shortCode[k] \notin ShortCodeChars
             first == IF i.url = UrlBad THEN MsgInvalidUrl
                      ELSE IF Len(i.shortCode) < 3 THEN MsgTooShort
                      ELSE IF Len(i.shortCode) > 20 THEN MsgTooLong
                      ELSE IF badChars THEN MsgBadChars
                      ELSE MsgExpectedNumber
         IN  /\ \/ createLink(p, u, i) /\ i.id = 0
                \/ editLink(p, u, i) /\ i.id # 0
             /\ \/ i.url = UrlBad
                \/ Len(i.shortCode) \notin 3..20
                \/ badChars
                \/ i.id = NotANumber
             => /\ out'.result = Failure(first)
                /\ calls' = calls
                /\ links' = links]_vars

\* an edit without a numeric id and with a url that does not parse has just
\* been refused for its url
C20_Witness ==
  /\ out.op = "editLink"
  /\ out.id = NotANumber
  /\ out.result = Failure(MsgInvalidUrl)

\* C21: an editLink or deleteLinkAction call by a signed-in caller whose id is
\* no number is refused by validation, with the id's issue when the rest of
\* the input is valid, in its first step: no store call, the store as it was.
C21_IdRequired ==
  [][\A p \in DOMAIN calls : \A u \in UserIds :
       /\ \A i \in EditInputs :
            i.id = NotANumber /\ editLink(p, u, i) =>
              /\ out'.result = Failure(MsgExpectedNumber)
              /\ calls' = calls
              /\ links' = links
       /\ \A i \in DeleteInputs :
            i.id = NotANumber /\ deleteLinkAction(p, u, i) =>
              /\ out'.result = Failure(MsgExpectedNumber)
              /\ calls' = calls
              /\ links' = links]_vars

\* a delete without a numeric id has just been refused while links are stored
C21_Witness ==
  /\ out.op = "deleteLinkAction"
  /\ out.userId # NoUser
  /\ out.id = NotANumber
  /\ out.result = Failure(MsgExpectedNumber)
  /\ links # {}

\* C22: a successful editLink leaves the number of links as it was, leaves
\* every link but the one with the given id as it was, and on that one keeps
\* id, userId and createdAt and writes the submitted url and shortCode.
C22_EditFrame ==
  [][\A p \in DOMAIN calls :
       calls[p].op = "editLink" /\ ReturnsNow(p) /\ out'.result.success =>
         /\ Cardinality(links') = Cardinality(links)
         /\ \A l \in links :
              IF l.id = calls[p].input.id
              THEN \E m \in links' :
                     /\ m.id = l.id
                     /\ m.userId = l.userId
                     /\ m.createdAt = l.createdAt
                     /\ m.url = calls[p].input.url
                     /\ m.shortCode = calls[p].input.shortCode
                     /\ out'.result.data = <<m>>
              ELSE l \in links']_vars

\* an owner of two links has just edited one, at a later time than its creation
C22_Witness ==
  /\ out.op = "editLink"
  /\ out.result.success
  /\ out.result.data[1].updatedAt > out.result.data[1].createdAt
  /\ \E l \in links : l.userId = out.userId /\ l.id # out.id
  /\ \E l \in links : l.userId # out.userId

\* C23: a successful editLink writes an updatedAt that is not earlier than the
\* link's previous updatedAt and not earlier than the updatedAt of any other
\* link of its owner, so the edited link is first in the owner's listing.
C23_UpdatedAtRefreshed ==
  [][\A p \in DOMAIN calls :
       calls[p].op = "editLink" /\ ReturnsNow(p) /\ out'.result.success =>
         \A l \in links : l.id = calls[p].input.id =>
           \E m \in links' :
             /\ m.id = l.id
             /\ m.updatedAt >= l.updatedAt
             /\ \A o \in links' : o.userId = m.userId => o.updatedAt <= m.updatedAt]_vars

C26_OwnCodeNotTaken ==
  [][\A p \in DOMAIN calls :
       /\ \E l \in links : /\ l.id = calls[p].input.id
                            /\ l.userId = calls[p].userId
                            /\ l.shortCode = calls[p].input.shortCode
                            /\ l.url # calls[p].input.url
       /\ updateLink_update(p)
       => /\ out'.result.success
          /\ \E m \in links' : /\ m.id = calls[p].input.id
                                /\ m.shortCode = calls[p].input.shortCode
                                /\ m.url = calls[p].input.url
          /\ Cardinality(links') = Cardinality(links)]_vars

\* an edit has just given a link another url under the short code it had,
\* while another link is stored too
C26_Witness ==
  /\ out.op = "editLink"
  /\ out.result.success
  /\ out.result.data[1].url = UrlB
  /\ out.result.data[1].shortCode = CodeAbc
  /\ out.result.data[1].createdAt = 0
  /\ Cardinality(links) = 2

\* the link the client found under its short code is stored under another
\* one now: an edit has changed its shortCode since
Renamed ==
  /\ resolved.n >= 1
  /\ \E m \in links : m.id = resolved.id /\ m.shortCode # resolved.code

\* C27: a successful editLink that changes a link's shortCode leaves no link
\* under the old shortCode; from then on, while no link has taken the old
\* shortCode, a request for it is answered not found and a valid createLink
\* with it by any signed-in user succeeds; and a request for the new shortCode
\* right after the edit is redirected to the url the edit wrote.
C27_OldCodeFreed ==
  [][/\ \A p \in DOMAIN calls : \A l \in links :
          /\ l.id = calls[p].input.id
          /\ l.shortCode # calls[p].input.shortCode
          /\ updateLink_update(p)
          /\ out'.result.success
          => /\ \A k \in links' : k.shortCode # l.shortCode
             /\ \E k \in links' : /\ k.id = l.id
                                   /\ k.shortCode = calls[p].input.shortCode
                                   /\ k.url = calls[p].input.url
     /\ \A u \in Callers :
          /\ Renamed
          /\ \A k \in links : k.shortCode # resolved.code
          /\ Resolve(u, resolved.code)
          => out'.response = NotFoundResponse
     /\ \A u \in Callers :
          /\ out.op = "editLink"
          /\ out.result.success
          /\ GET(u, out.result.data[1].shortCode)
          => out'.response = RedirectResponse(out.result.data[1])
     /\ \A p \in DOMAIN calls :
          /\ Renamed
          /\ \A k \in links : k.shortCode # resolved.code
          /\ calls[p].input.shortCode = resolved.code
          /\ insertLink(p)
          => /\ out'.result.success
             /\ \E k \in links' : /\ k.shortCode = resolved.code
                                   /\ k.userId = calls[p].userId
                                   /\ k.id # resolved.id]_vars

\* the client was redirected by a short code, then answered not found once
\* the link had another one, and the other user has just created a link under
\* the short code given up
C27_Witness ==
  /\ resolved.n = 2
  /\ resolved.first.status = StatusTemporaryRedirect
  /\ resolved.second = NotFoundResponse
  /\ Renamed
  /\ out.op = "createLink"
  /\ out.userId = OTHER_USER_ID
  /\ out.result.success
  /\ out.result.data[1].shortCode = resolved.code

\* the link the client found under its short code is stored no more: a
\* delete has removed it since
Deleted ==
  /\ resolved.n >= 1
  /\ resolved.id # 0
  /\ \A m \in links : m.id # resolved.id

\* C28: a deleteLinkAction that returns success leaves no link of its id; from
\* then on, while no link has taken the deleted link's shortCode, a request
\* for it is answered not found; the owner's listing never shows the deleted
\* link; a createLink with that shortCode succeeds and its link gets an id
\* above every id drawn before, never the deleted link's; and no step of an
\* edit or delete that names the deleted link's id changes a stored link.
C28_DeletedForGood ==
  [][/\ \A p \in DOMAIN calls :
          deleteLinkById_delete(p) =>
            /\ out'.result.success
            /\ \A k \in links' : k.id # calls[p].input.id
     /\ \A u \in Callers :
          /\ Deleted
          /\ \A k \in links : k.shortCode # resolved.code
          /\ Resolve(u, resolved.code)
          => out'.response = NotFoundResponse
     /\ Deleted /\ DashboardPage(SEED_USER_ID)
          => \A k \in DOMAIN out'.result.data :
                out'.result.data[k].id # resolved.id
     /\ \A p \in DOMAIN calls :
          /\ Deleted
          /\ \A k \in links : k.shortCode # resolved.code
          /\ calls[p].input.shortCode = resolved.code
          /\ insertLink(p)
          => /\ out'.result.success
             /\ out'.result.data[1].shortCode = resolved.code
             /\ out'.result.data[1].id # resolved.id
     /\ \A p \in DOMAIN calls :
          insertLink(p) /\ out'.result.success
          => /\ out'.result.data[1].id >= nextId
             /\ \A l \in links : out'.result.data[1].id > l.id
     /\ nextId' >= nextId
     /\ \A p \in DOMAIN calls :
          /\ Deleted
          /\ calls[p].input.id = resolved.id
          /\ \/ updateLink_select(p) \/ updateLink_update(p)
             \/ deleteLinkById_select(p) \/ deleteLinkById_delete(p)
          => links' = links]_vars

\* the client was redirected by a short code whose link was deleted since; a
\* new link has that short code now, and an edit that names the deleted
\* link's id has just been answered that the link is not found
C28_Witness ==
  /\ Deleted
  /\ resolved.first.status = StatusTemporaryRedirect
  /\ \E k \in links : k.shortCode = resolved.code /\ k.id > resolved.id
  /\ out.op = "editLink"
  /\ out.id = resolved.id
  /\ out.result = Failure(MsgNotFound)

\* C29: when an editLink and a deleteLinkAction of the owner run on one link
\* at the same time, whatever the order of their store calls: the delete's
\* write leaves no link of that id and returns success; no step brings a
\* removed id back, a new row takes an id never drawn; and an edit whose
\* update finds its row removed returns the not-found failure and writes
\* nothing.
C29_EditNeverRecreates ==
  [][/\ \A p \in DOMAIN calls :
          deleteLinkById_delete(p) =>
            /\ out'.result = Success(<<>>)
            /\ \A k \in links' : k.id # calls[p].input.id
     /\ \A m \in links' : (\E l \in links : l.id = m.id) \/ m.id >= nextId
     /\ \A p \in DOMAIN calls :
          /\ OwnedRows(links, calls[p].input.id, calls[p].userId) = {}
          /\ updateLink_update(p)
          => /\ out'.result = Failure(MsgNotFound)
             /\ links' = links]_vars

\* the owner's delete of a link has just returned success while the owner's
\* edit of that link is past its ownership check and has yet to write
C29_Witness ==
  /\ out.op = "deleteLinkAction"
  /\ out.result = Success(<<>>)
  /\ \A l \in links : l.id # out.id
  /\ \E p \in DOMAIN calls : /\ calls[p].pc = "updateLink_update"
                              /\ calls[p].input.id = out.id
                              /\ calls[p].userId = out.userId

====
